---- MODULE Spec2Model ----
(***************************************************************************)
(* Token routing filters (TokenRouter, HashedTokenRouter) and the xDS      *)
(* resource envelope codec of quilkin.                                     *)
(***************************************************************************)
EXTENDS Integers, Sequences, FiniteSets, TLC

VARIABLES
    clusters,   \* the published cluster map: clusters in iteration order
    filter,     \* the router built by the factory, or NoFilter
    config_in,  \* the configuration the factory was given
    ctx,        \* the ReadContext of the packet being routed, or NoCtx
    result,     \* what the last read returned, or NoResult
    any,        \* the envelope at hand (prost_types::Any), or NoAny
    res,        \* the Resource at hand, or NoResource
    decoded,    \* what the last decode or registry lookup returned
    pc,         \* where the in-flight sync_read stands
    idx,        \* the cluster the in-flight sync_read looks at next
    dests,      \* the in-flight sync_read's local destinations
    versions,   \* the map as updates left it: the last, and those the read in flight met
    serving,    \* whether the proxy is receiving packets
    inbound,    \* packets sent to the proxy and not processed yet
    forwarded,  \* packets the proxy sent on to an endpoint
    dropped     \* packets the proxy dropped

routerVars == <<clusters, filter, config_in, ctx, result>>
xdsVars == <<any, res, decoded>>
scanVars == <<pc, idx, dests, versions>>
netVars == <<serving, inbound, forwarded, dropped>>
vars == <<routerVars, xdsVars, scanVars, netVars>>

(***************************************************************************)
(* Bounds and input domains                                                *)
(***************************************************************************)
MaxEndpoints == 2

\* byte strings
abc == <<97, 98, 99>>
k123 == <<49, 50, 51>>
xy == <<120, 121>>
wrong == <<119, 114, 111, 110, 103>>
hello == <<104, 101, 108, 108, 111>>

TokenSet == {abc, k123, xy}

EndpointA == [address |-> "A", tokens |-> {abc}]
EndpointB == [address |-> "B", tokens |-> {k123}]
EndpointC == [address |-> "C", tokens |-> {abc, k123}]
EndpointPool == {EndpointA, EndpointB, EndpointC}

\* None is the default cluster's locality
Localities == {"None", "eu"}

(***************************************************************************)
(* Helpers                                                                 *)
(***************************************************************************)
RECURSIVE ConcatAll(_)
ConcatAll(ss) ==
    IF ss = <<>> THEN <<>> ELSE Head(ss) \o ConcatAll(Tail(ss))

Addresses(eps) == [i \in 1..Len(eps) |-> eps[i].address]

\* the endpoint sets over the pool: ordered by address, no address twice
EndpointSets ==
    {s \in UNION {[1..n -> EndpointPool] : n \in 0..MaxEndpoints} :
        \A i \in 1..Len(s) : \A j \in 1..Len(s) :
            i < j =>
                \/ s[i].address = "A" /\ s[j].address \in {"B", "C"}
                \/ s[i].address = "B" /\ s[j].address = "C"}

(***************************************************************************)
(* crate::codec::base64::encode: standard alphabet, padded                 *)
(***************************************************************************)
B64Chars ==
    << "A", "B", "C", "D", "E", "F", "G", "H", "I", "J", "K", "L", "M",
       "N", "O", "P", "Q", "R", "S", "T", "U", "V", "W", "X", "Y", "Z",
       "a", "b", "c", "d", "e", "f", "g", "h", "i", "j", "k", "l", "m",
       "n", "o", "p", "q", "r", "s", "t", "u", "v", "w", "x", "y", "z",
       "0", "1", "2", "3", "4", "5", "6", "7", "8", "9", "+", "/" >>

B64(n) == B64Chars[n + 1]

RECURSIVE Base64Encode(_)
Base64Encode(bytes) ==
    IF Len(bytes) = 0 THEN ""
    ELSE IF Len(bytes) = 1 THEN
        B64(bytes[1] \div 4) \o B64((bytes[1] % 4) * 16) \o "=="
    ELSE IF Len(bytes) = 2 THEN
        B64(bytes[1] \div 4)
            \o B64((bytes[1] % 4) * 16 + bytes[2] \div 16)
            \o B64((bytes[2] % 16) * 4) \o "="
    ELSE
        B64(bytes[1] \div 4)
            \o B64((bytes[1] % 4) * 16 + bytes[2] \div 16)
            \o B64((bytes[2] % 16) * 4 + bytes[3] \div 64)
            \o B64(bytes[3] % 64)
            \o Base64Encode(SubSeq(bytes, 4, Len(bytes)))

(***************************************************************************)
(* net::endpoint::metadata: keys and typed values                          *)
(***************************************************************************)
CAPTURED_BYTES == "quilkin.dev/capture"
TOKEN_KEY == "TOKEN"
Keys == {CAPTURED_BYTES, TOKEN_KEY}

NoValue == [kind |-> "None", data |-> <<>>]
Bytes(b) == [kind |-> "Bytes", data |-> b]
String(s) == [kind |-> "String", data |-> s]
Values == {Bytes(t) : t \in TokenSet} \cup {String(wrong)}

EmptyMetadata == [k \in {} |-> NoValue]

\* DynamicMetadata::get: Some(value) or None
MetadataGet(metadata, key) ==
    IF key \in DOMAIN metadata THEN metadata[key] ELSE NoValue

\* DynamicMetadata::insert
MetadataInsert(metadata, key, value) ==
    [k \in DOMAIN metadata \cup {key} |->
        IF k = key THEN value ELSE metadata[k]]

(***************************************************************************)
(* net::cluster: the cluster map and its per-cluster token index           *)
(***************************************************************************)
\* Token::new: the opaque lookup key of a token
Token(token) == <<"Token", token>>

EmptyTokenMap == [k \in {} |-> <<>>]

\* the index of one endpoint set: token -> addresses of the endpoints
\* holding it, in the set's order
BuildTokenMap(endpoints) ==
    [k \in {Token(t) : t \in UNION {endpoints[i].tokens : i \in 1..Len(endpoints)}} |->
        Addresses(SelectSeq(endpoints, LAMBDA ep : k \in {Token(t) : t \in ep.tokens}))]

\* EndpointSet::addresses_for_token: extends addrs by the index's entry
AddressesForToken(set, tok, addrs) ==
    IF tok \in DOMAIN set.token_map THEN addrs \o set.token_map[tok] ELSE addrs

\* every endpoint of the map
AllEndpoints(map) ==
    UNION {{map[i].endpoints[j] : j \in 1..Len(map[i].endpoints)} : i \in 1..Len(map)}

\* ClusterMap::filter_endpoints: the endpoints of every cluster that
\* satisfy the predicate, in iteration order; the predicate is given as
\* the set of endpoints it accepts
FilterEndpoints(map, accepted) ==
    ConcatAll([i \in 1..Len(map) |->
                SelectSeq(map[i].endpoints, LAMBDA ep : ep \in accepted)])

HasLocality(map, locality) == \E i \in 1..Len(map) : map[i].locality = locality

\* ClusterMap::insert: replaces the cluster of that locality, or adds one
\* at position pos of the iteration order; the new set's index is not built
InsertCluster(map, locality, endpoints, pos) ==
    LET set == [locality |-> locality, endpoints |-> endpoints,
                token_map |-> EmptyTokenMap]
    IN  IF HasLocality(map, locality)
        THEN [i \in 1..Len(map) |->
                IF map[i].locality = locality THEN set ELSE map[i]]
        ELSE SubSeq(map, 1, pos - 1) \o <<set>> \o SubSeq(map, pos, Len(map))

\* ClusterMap::build_token_maps: rebuilds every cluster's index
BuildTokenMaps(map) ==
    [i \in 1..Len(map) |->
        [map[i] EXCEPT !.token_map = BuildTokenMap(map[i].endpoints)]]

\* the per-cluster token indices are those of the clusters' endpoints
IndexCurrent(map) == map = BuildTokenMaps(map)

(***************************************************************************)
(* filters::token_router                                                   *)
(***************************************************************************)
NoFilter == [kind |-> "NoFilter", config |-> [metadata_key |-> ""]]
NoCtx ==
    [live |-> FALSE, endpoints |-> <<>>, metadata |-> [k \in {} |-> NoValue],
     destinations |-> <<>>, contents |-> <<>>]
NoResult == [kind |-> "NoResult", key |-> "", value |-> NoValue, token |-> ""]

Ok == [kind |-> "Ok", key |-> "", value |-> NoValue, token |-> ""]
NoTokenFound(key) ==
    [kind |-> "NoTokenFound", key |-> key, value |-> NoValue, token |-> ""]
InvalidType(key, value) ==
    [kind |-> "InvalidType", key |-> key, value |-> value, token |-> ""]
NoEndpointMatch(key, token) ==
    [kind |-> "NoEndpointMatch", key |-> key, value |-> NoValue, token |-> token]

\* mutant: the default is another key than the capture filter's
default_metadata_key_Other == TOKEN_KEY

default_metadata_key == CAPTURED_BYTES

\* Config::default
ConfigDefault == [metadata_key |-> default_metadata_key]

\* TryFrom<proto::TokenRouter> for Config; p.metadata_key is "None" or a key
ConfigFromProto(p) ==
    [metadata_key |->
        IF p.metadata_key = "None" THEN default_metadata_key ELSE p.metadata_key]

\* ReadContext::new
NewContext(endpoints, contents) ==
    [live |-> TRUE, endpoints |-> endpoints, metadata |-> EmptyMetadata,
     destinations |-> <<>>, contents |-> contents]

\* mutant: any endpoint that has a token matches
EndpointMatches_AnyToken(endpoint, token) == endpoint.tokens # {}

\* the predicate TokenRouter hands to filter_endpoints
EndpointMatches(endpoint, token) == token \in endpoint.tokens

\* mutant: the emptiness check after the collect is missing
TokenRouterSyncRead_NoEmptyCheck(config, c) ==
    LET value == MetadataGet(c.metadata, config.metadata_key) IN
    IF value.kind = "Bytes" THEN
        LET destinations ==
                FilterEndpoints(c.endpoints,
                    {ep \in AllEndpoints(c.endpoints) : EndpointMatches(ep, value.data)})
        IN  [ctx |-> [c EXCEPT !.destinations = Addresses(destinations)], result |-> Ok]
    ELSE IF value.kind # "None" THEN
        [ctx |-> c, result |-> InvalidType(config.metadata_key, value)]
    ELSE
        [ctx |-> c, result |-> NoTokenFound(config.metadata_key)]

\* mutant: the collected addresses are written only when there are some
TokenRouterSyncRead_WriteOnSuccess(config, c) ==
    LET value == MetadataGet(c.metadata, config.metadata_key) IN
    IF value.kind = "Bytes" THEN
        LET destinations ==
                FilterEndpoints(c.endpoints,
                    {ep \in AllEndpoints(c.endpoints) : EndpointMatches(ep, value.data)})
        IN  IF Addresses(destinations) = <<>>
            THEN [ctx |-> c,
                  result |-> NoEndpointMatch(config.metadata_key,
                                             Base64Encode(value.data))]
            ELSE [ctx |-> [c EXCEPT !.destinations = Addresses(destinations)],
                  result |-> Ok]
    ELSE IF value.kind # "None" THEN
        [ctx |-> c, result |-> InvalidType(config.metadata_key, value)]
    ELSE
        [ctx |-> c, result |-> NoTokenFound(config.metadata_key)]

\* TokenRouter::sync_read: the context and the result after the call
TokenRouterSyncRead(config, c) ==
    LET value == MetadataGet(c.metadata, config.metadata_key) IN
    IF value.kind = "Bytes" THEN
        LET token == value.data
            destinations ==
                FilterEndpoints(c.endpoints,
                    {ep \in AllEndpoints(c.endpoints) : EndpointMatches(ep, token)})
            c2 == [c EXCEPT !.destinations = Addresses(destinations)]
        IN  IF c2.destinations = <<>>
            THEN [ctx |-> c2,
                  result |-> NoEndpointMatch(config.metadata_key, Base64Encode(token))]
            ELSE [ctx |-> c2, result |-> Ok]
    ELSE IF value.kind # "None" THEN
        [ctx |-> c, result |-> InvalidType(config.metadata_key, value)]
    ELSE
        [ctx |-> c, result |-> NoTokenFound(config.metadata_key)]

\* mutant: the loop does not break at the first non-empty lookup
RECURSIVE HashedScan_NoBreak(_, _, _, _)
HashedScan_NoBreak(map, tok, i, destinations) ==
    IF i > Len(map) THEN destinations
    ELSE HashedScan_NoBreak(map, tok, i + 1,
                            AddressesForToken(map[i], tok, destinations))

\* mutant: the loop breaks after its first turn whatever the lookup gave
HashedScan_FirstTurnOnly(map, tok, i, destinations) ==
    IF i > Len(map) THEN destinations
    ELSE AddressesForToken(map[i], tok, destinations)

\* the loop of HashedTokenRouter::sync_read from cluster i on: each
\* cluster's index is asked in turn until destinations is non-empty
RECURSIVE HashedScan(_, _, _, _)
HashedScan(map, tok, i, destinations) ==
    IF i > Len(map) THEN destinations
    ELSE LET d == AddressesForToken(map[i], tok, destinations)
         IN  IF d # <<>> THEN d ELSE HashedScan(map, tok, i + 1, d)

\* mutant: the collected addresses are not written to the context
HashedTokenRouterSyncRead_NoWrite(config, c) ==
    LET value == MetadataGet(c.metadata, config.metadata_key) IN
    IF value.kind = "Bytes" THEN
        IF HashedScan(c.endpoints, Token(value.data), 1, <<>>) = <<>>
        THEN [ctx |-> c,
              result |-> NoEndpointMatch(config.metadata_key, Base64Encode(value.data))]
        ELSE [ctx |-> c, result |-> Ok]
    ELSE IF value.kind # "None" THEN
        [ctx |-> c, result |-> InvalidType(config.metadata_key, value)]
    ELSE
        [ctx |-> c, result |-> NoTokenFound(config.metadata_key)]

\* mutant: the two failure arms are swapped
HashedTokenRouterSyncRead_SwappedArms(config, c) ==
    LET value == MetadataGet(c.metadata, config.metadata_key) IN
    IF value.kind = "Bytes" THEN
        LET destinations == HashedScan(c.endpoints, Token(value.data), 1, <<>>)
            c2 == [c EXCEPT !.destinations = destinations]
        IN  IF c2.destinations = <<>>
            THEN [ctx |-> c2,
                  result |-> NoEndpointMatch(config.metadata_key,
                                             Base64Encode(value.data))]
            ELSE [ctx |-> c2, result |-> Ok]
    ELSE IF value.kind # "None" THEN
        [ctx |-> c, result |-> NoTokenFound(config.metadata_key)]
    ELSE
        [ctx |-> c, result |-> InvalidType(config.metadata_key, value)]

\* HashedTokenRouter::sync_read
HashedTokenRouterSyncRead(config, c) ==
    LET value == MetadataGet(c.metadata, config.metadata_key) IN
    IF value.kind = "Bytes" THEN
        LET token == value.data
            tok == Token(token)
            destinations == HashedScan(c.endpoints, tok, 1, <<>>)
            c2 == [c EXCEPT !.destinations = destinations]
        IN  IF c2.destinations = <<>>
            THEN [ctx |-> c2,
                  result |-> NoEndpointMatch(config.metadata_key, Base64Encode(token))]
            ELSE [ctx |-> c2, result |-> Ok]
    ELSE IF value.kind # "None" THEN
        [ctx |-> c, result |-> InvalidType(config.metadata_key, value)]
    ELSE
        [ctx |-> c, result |-> NoTokenFound(config.metadata_key)]

\* Filter::read of the built router
SyncRead(f, c) ==
    IF f.kind = "TokenRouter"
    THEN TokenRouterSyncRead(f.config, c)
    ELSE HashedTokenRouterSyncRead(f.config, c)

RouterKinds == {"TokenRouter", "HashedTokenRouter"}

(***************************************************************************)
(* crates/xds resource: the type registry                                  *)
(***************************************************************************)
BASE_URL == "type.googleapis.com"

\* type_urls!: concat!($base_url, "/", $type_url)
CLUSTER_TYPE == BASE_URL \o "/" \o "quilkin.config.v1alpha1.Cluster"
LISTENER_TYPE == BASE_URL \o "/" \o "envoy.config.listener.v3.Listener"
DATACENTER_TYPE == BASE_URL \o "/" \o "quilkin.config.v1alpha1.Datacenter"
FILTER_CHAIN_TYPE == BASE_URL \o "/" \o "quilkin.config.v1alpha1.FilterChain"

\* ResourceType::VARIANTS
VARIANTS == <<"Cluster", "Listener", "FilterChain", "Datacenter">>

\* mutant: two arms of type_url are swapped
type_url_Swapped(rt) ==
    CASE rt = "Cluster" -> CLUSTER_TYPE
      [] rt = "Listener" -> LISTENER_TYPE
      [] rt = "Datacenter" -> FILTER_CHAIN_TYPE
      [] rt = "FilterChain" -> DATACENTER_TYPE

\* ResourceType::type_url
type_url(rt) ==
    CASE rt = "Cluster" -> CLUSTER_TYPE
      [] rt = "Listener" -> LISTENER_TYPE
      [] rt = "Datacenter" -> DATACENTER_TYPE
      [] rt = "FilterChain" -> FILTER_CHAIN_TYPE

NoResource == [variant |-> "None", msg |-> [none |-> TRUE]]
NoAny == [type_url |-> "", value |-> <<>>, live |-> FALSE]
NoDecoded == [kind |-> "None", resource |-> NoResource, rtype |-> "", url |-> ""]

DecodedOk(r) == [kind |-> "Ok", resource |-> r, rtype |-> "", url |-> ""]
TypeOk(rt) == [kind |-> "Ok", resource |-> NoResource, rtype |-> rt, url |-> ""]
UnknownResourceType(url) ==
    [kind |-> "UnknownResourceType", resource |-> NoResource, rtype |-> "", url |-> url]
DecodeError ==
    [kind |-> "DecodeError", resource |-> NoResource, rtype |-> "", url |-> ""]

\* TryFrom<&str> for ResourceType
ResourceTypeTryFrom(url) ==
    IF url = CLUSTER_TYPE THEN TypeOk("Cluster")
    ELSE IF url = LISTENER_TYPE THEN TypeOk("Listener")
    ELSE IF url = FILTER_CHAIN_TYPE THEN TypeOk("FilterChain")
    ELSE IF url = DATACENTER_TYPE THEN TypeOk("Datacenter")
    ELSE UnknownResourceType(url)

\* Resource::resource_type
resource_type(r) ==
    CASE r.variant = "Cluster" -> "Cluster"
      [] r.variant = "Listener" -> "Listener"
      [] r.variant = "FilterChain" -> "FilterChain"
      [] r.variant = "Datacenter" -> "Datacenter"

(***************************************************************************)
(* prost: the messages' wire form.  A payload is the sequence of its       *)
(* fields; a field has its number, its wire type, the length its header    *)
(* announces and its data, a string (str) or a nested payload (sub).       *)
(***************************************************************************)
LEN == 2

RECURSIVE EncodedLen(_)
EncodedLen(payload) ==
    IF payload = <<>> THEN 0
    ELSE 2 + Head(payload).len + EncodedLen(Tail(payload))

\* prost::encoding::string::encode; a default value is not written
EncodeString(number, s) ==
    IF s = "" THEN <<>>
    ELSE <<[number |-> number, wire |-> LEN, len |-> Len(s), str |-> s, sub |-> <<>>]>>

\* prost::encoding::message::encode
EncodeMessage(number, sub) ==
    <<[number |-> number, wire |-> LEN, len |-> EncodedLen(sub), str |-> "", sub |-> sub]>>

\* Message::encode of each payload type
EncodeLocality(m) == EncodeString(1, m.region)
EncodeCluster(m) ==
    IF m.locality = <<>> THEN <<>>
    ELSE EncodeMessage(1, EncodeLocality(m.locality[1]))
EncodeListener(m) == EncodeString(1, m.name)
EncodeFilter(m) == EncodeString(1, m.name)
EncodeFilterChain(m) ==
    ConcatAll([i \in 1..Len(m.filters) |-> EncodeMessage(1, EncodeFilter(m.filters[i]))])
EncodeDatacenter(m) == EncodeString(1, m.host) \o EncodeString(3, m.icao_code)

\* whether a field is one the decoder can read: a wire type of the
\* format, and as much data as the header announces
WellFormed(f) ==
    /\ f.wire \in {0, 1, 2, 5}
    /\ f.wire = LEN => f.len = (IF f.str # "" THEN Len(f.str) ELSE EncodedLen(f.sub))

\* whether the payload holds field number as a string / as a message
IsString(f, number) == f.number = number /\ f.wire = LEN /\ f.sub = <<>>
IsMessage(f, number) == f.number = number /\ f.wire = LEN /\ f.str = ""

Failed == [ok |-> FALSE, msg |-> [none |-> TRUE]]
Decoded(m) == [ok |-> TRUE, msg |-> m]

\* Message::decode of each payload type: Failed or the message; a known
\* field of another wire type is an error, an unknown field is skipped
RECURSIVE MergeString(_, _, _)
MergeString(payload, number, acc) ==
    IF payload = <<>> THEN acc
    ELSE MergeString(Tail(payload), number,
                     IF IsString(Head(payload), number) THEN Head(payload).str ELSE acc)

Subs(payload, number) ==
    LET hits == SelectSeq(payload, LAMBDA f : IsMessage(f, number))
    IN  [i \in 1..Len(hits) |-> hits[i].sub]

Malformed(payload, known) ==
    \E i \in 1..Len(payload) :
        \/ ~WellFormed(payload[i])
        \/ payload[i].number \in known /\ payload[i].wire # LEN
        \/ \E j \in 1..Len(payload[i].sub) : ~WellFormed(payload[i].sub[j])

DecodeLocality(payload) == [region |-> MergeString(payload, 1, "")]
DecodeFilter(payload) == [name |-> MergeString(payload, 1, "")]

DecodeCluster(payload) ==
    IF Malformed(payload, {1}) THEN Failed
    ELSE LET subs == Subs(payload, 1)
         IN  Decoded([locality |->
                        IF subs = <<>> THEN <<>>
                        ELSE <<DecodeLocality(ConcatAll(subs))>>])

DecodeListener(payload) ==
    IF Malformed(payload, {1}) THEN Failed
    ELSE Decoded([name |-> MergeString(payload, 1, "")])

DecodeFilterChain(payload) ==
    IF Malformed(payload, {1}) THEN Failed
    ELSE LET subs == Subs(payload, 1)
         IN  Decoded([filters |-> [i \in 1..Len(subs) |-> DecodeFilter(subs[i])]])

DecodeDatacenter(payload) ==
    IF Malformed(payload, {1, 3}) THEN Failed
    ELSE Decoded([host |-> MergeString(payload, 1, ""),
                  icao_code |-> MergeString(payload, 3, "")])

(***************************************************************************)
(* crates/xds resource: Resource                                           *)
(***************************************************************************)
Cluster(m) == [variant |-> "Cluster", msg |-> m]
Listener(m) == [variant |-> "Listener", msg |-> m]
FilterChain(m) == [variant |-> "FilterChain", msg |-> m]
Datacenter(m) == [variant |-> "Datacenter", msg |-> m]

\* the `?` on the decode, and the variant wrapped around the message
Decoding(d, variant) ==
    IF d.ok THEN DecodedOk([variant |-> variant, msg |-> d.msg]) ELSE DecodeError

\* mutant: an unknown identifier is taken for a filter chain
FromAny_Defaulting(a) ==
    IF a.type_url = CLUSTER_TYPE THEN Decoding(DecodeCluster(a.value), "Cluster")
    ELSE IF a.type_url = LISTENER_TYPE THEN Decoding(DecodeListener(a.value), "Listener")
    ELSE IF a.type_url = DATACENTER_TYPE
        THEN Decoding(DecodeDatacenter(a.value), "Datacenter")
    ELSE Decoding(DecodeFilterChain(a.value), "FilterChain")

\* Resource::from_any
FromAny(a) ==
    IF a.type_url = CLUSTER_TYPE THEN Decoding(DecodeCluster(a.value), "Cluster")
    ELSE IF a.type_url = LISTENER_TYPE THEN Decoding(DecodeListener(a.value), "Listener")
    ELSE IF a.type_url = DATACENTER_TYPE
        THEN Decoding(DecodeDatacenter(a.value), "Datacenter")
    ELSE IF a.type_url = FILTER_CHAIN_TYPE
        THEN Decoding(DecodeFilterChain(a.value), "FilterChain")
    ELSE UnknownResourceType(a.type_url)

\* TryFrom<prost_types::Any> for Resource
TryFromAny(a) ==
    IF a.type_url = CLUSTER_TYPE THEN Decoding(DecodeCluster(a.value), "Cluster")
    ELSE IF a.type_url = LISTENER_TYPE THEN Decoding(DecodeListener(a.value), "Listener")
    ELSE IF a.type_url = DATACENTER_TYPE
        THEN Decoding(DecodeDatacenter(a.value), "Datacenter")
    ELSE IF a.type_url = FILTER_CHAIN_TYPE
        THEN Decoding(DecodeFilterChain(a.value), "FilterChain")
    ELSE UnknownResourceType(a.type_url)

\* Message::encode of the payload a Resource holds
EncodePayload(r) ==
    CASE r.variant = "Cluster" -> EncodeCluster(r.msg)
      [] r.variant = "Listener" -> EncodeListener(r.msg)
      [] r.variant = "FilterChain" -> EncodeFilterChain(r.msg)
      [] r.variant = "Datacenter" -> EncodeDatacenter(r.msg)

\* ResourceType::encode_to_any, message given in its wire form
EncodeToAny(rt, value) == [type_url |-> type_url(rt), value |-> value, live |-> TRUE]

(***************************************************************************)
(* std::net: IpAddr::to_canonical and Display                              *)
(***************************************************************************)
Digits == <<"0", "1", "2", "3", "4", "5", "6", "7", "8", "9",
            "a", "b", "c", "d", "e", "f">>

RECURSIVE Radix(_, _)
Radix(n, base) ==
    IF n < base THEN Digits[n + 1]
    ELSE Radix(n \div base, base) \o Digits[(n % base) + 1]

V4(a, b, c, d) == [v |-> "V4", parts |-> <<a, b, c, d>>]
V6(segments) == [v |-> "V6", parts |-> segments]

\* Ipv6Addr::to_ipv4_mapped: ::ffff:a.b.c.d
IsIpv4Mapped(ip) ==
    /\ ip.v = "V6"
    /\ \A i \in 1..5 : ip.parts[i] = 0
    /\ ip.parts[6] = 65535

\* IpAddr::to_canonical
ToCanonical(ip) ==
    IF IsIpv4Mapped(ip)
    THEN V4(ip.parts[7] \div 256, ip.parts[7] % 256,
            ip.parts[8] \div 256, ip.parts[8] % 256)
    ELSE ip

Ipv4ToString(p) ==
    Radix(p[1], 10) \o "." \o Radix(p[2], 10) \o "."
        \o Radix(p[3], 10) \o "." \o Radix(p[4], 10)

\* the segments from..to in hex, colon separated
RECURSIVE JoinHex(_, _, _)
JoinHex(segments, from, to) ==
    IF from > to THEN ""
    ELSE IF from = to THEN Radix(segments[from], 16)
    ELSE Radix(segments[from], 16) \o ":" \o JoinHex(segments, from + 1, to)

\* the length of the run of zero segments starting at i
RECURSIVE ZeroRun(_, _)
ZeroRun(segments, i) ==
    IF i > Len(segments) \/ segments[i] # 0 THEN 0
    ELSE 1 + ZeroRun(segments, i + 1)

\* Display for Ipv6Addr: the first longest run of two or more zero
\* segments is written "::"
Ipv6ToString(segments) ==
    IF IsIpv4Mapped(V6(segments))
    THEN "::ffff:" \o Ipv4ToString(<<segments[7] \div 256, segments[7] % 256,
                                      segments[8] \div 256, segments[8] % 256>>)
    ELSE
    LET longest == CHOOSE i \in 1..8 :
            \A j \in 1..8 :
                \/ ZeroRun(segments, j) < ZeroRun(segments, i)
                \/ ZeroRun(segments, j) = ZeroRun(segments, i) /\ i <= j
    IN  IF ZeroRun(segments, longest) > 1
        THEN JoinHex(segments, 1, longest - 1) \o "::"
                \o JoinHex(segments, longest + ZeroRun(segments, longest), 8)
        ELSE JoinHex(segments, 1, 8)

\* Display for IpAddr
IpToString(ip) ==
    IF ip.v = "V4" THEN Ipv4ToString(ip.parts) ELSE Ipv6ToString(ip.parts)

\* mutant: the address is written without to_canonical
AddHostToDatacenter_NotCanonical(r, addr) ==
    IF r.variant = "Datacenter"
    THEN [r EXCEPT !.msg.host = IpToString(addr.ip)]
    ELSE r

\* Resource::add_host_to_datacenter
AddHostToDatacenter(r, addr) ==
    IF r.variant = "Datacenter"
    THEN [r EXCEPT !.msg.host = IpToString(ToCanonical(addr.ip))]
    ELSE r

(***************************************************************************)
(* The routing state machine                                               *)
(***************************************************************************)
\* the parts of the state a specification does not use
XdsIdle == any = NoAny /\ res = NoResource /\ decoded = NoDecoded
NoVersions == [published |-> <<>>, seen |-> {}, updates |-> 0]
ScanIdle == pc = "idle" /\ idx = 0 /\ dests = <<>> /\ versions = NoVersions
NetIdle == serving = FALSE /\ inbound = <<>> /\ forwarded = {} /\ dropped = {}
RouterIdle ==
    /\ clusters = <<>>
    /\ filter = NoFilter
    /\ config_in = [via |-> "unset", key |-> "None"]
    /\ ctx = NoCtx
    /\ result = NoResult

Init ==
    /\ clusters = <<>>
    /\ filter = NoFilter
    /\ config_in = [via |-> "unset", key |-> "None"]
    /\ ctx = NoCtx
    /\ result = NoResult
    /\ XdsIdle
    /\ ScanIdle
    /\ NetIdle

\* StaticFilter::try_from_config(config): from_config(None) or
\* from_config(Some(Config { metadata_key }))
TryFromConfig(kind, key) ==
    /\ filter = NoFilter
    /\ filter' = [kind |-> kind,
                  config |-> IF key = "None" THEN ConfigDefault
                             ELSE [metadata_key |-> key]]
    /\ config_in' = [via |-> "config", key |-> key]
    /\ UNCHANGED <<clusters, ctx, result, xdsVars, scanVars, netVars>>

\* the factory's path from the wire configuration
TryFromProto(kind, key) ==
    /\ filter = NoFilter
    /\ filter' = [kind |-> kind, config |-> ConfigFromProto([metadata_key |-> key])]
    /\ config_in' = [via |-> "proto", key |-> key]
    /\ UNCHANGED <<clusters, ctx, result, xdsVars, scanVars, netVars>>

\* clusters.insert(locality, endpoints) before any packet is read
Insert(locality, endpoints, pos) ==
    /\ ctx = NoCtx
    /\ pos \in 1..(Len(clusters) + 1)
    /\ clusters' = InsertCluster(clusters, locality, endpoints, pos)
    /\ UNCHANGED <<filter, config_in, ctx, result, xdsVars, scanVars, netVars>>

\* clusters.build_token_maps()
Build ==
    /\ ctx = NoCtx
    /\ clusters' = BuildTokenMaps(clusters)
    /\ clusters' # clusters
    /\ UNCHANGED <<filter, config_in, ctx, result, xdsVars, scanVars, netVars>>

\* a packet arrives: its context is built over the cluster map
NewCtx ==
    /\ ctx = NoCtx
    /\ ctx' = NewContext(clusters, hello)
    /\ UNCHANGED <<clusters, filter, config_in, result, xdsVars, scanVars, netVars>>

\* an upstream filter stores a value in the packet's metadata
Insert_metadata(key, value) ==
    /\ ctx # NoCtx
    /\ ctx' = [ctx EXCEPT !.metadata = MetadataInsert(ctx.metadata, key, value)]
    /\ UNCHANGED <<clusters, filter, config_in, result, xdsVars, scanVars, netVars>>

\* Filter::read
Read ==
    /\ ctx # NoCtx
    /\ filter # NoFilter
    /\ LET r == SyncRead(filter, ctx)
       IN  /\ ctx' = r.ctx
           /\ result' = r.result
    /\ UNCHANGED <<clusters, filter, config_in, xdsVars, scanVars, netVars>>

Next ==
    \/ \E kind \in RouterKinds : \E key \in Keys \cup {"None"} :
            TryFromConfig(kind, key)
    \/ \E kind \in RouterKinds : \E key \in Keys \cup {"None"} :
            TryFromProto(kind, key)
    \/ \E l \in Localities : \E eps \in EndpointSets : \E pos \in 1..2 :
            Insert(l, eps, pos)
    \/ Build
    \/ NewCtx
    \/ \E key \in Keys : \E value \in Values : Insert_metadata(key, value)
    \/ Read

Spec == Init /\ [][Next]_vars

(***************************************************************************)
(* The resource state machine: resources are built or arrive as            *)
(* envelopes, are encoded and decoded, and a relay stamps hosts            *)
(***************************************************************************)
MaxFilters == 1

FilterNames == {"capture", ""}

Resources ==
    {Cluster([locality |-> l]) : l \in {<<>>, <<[region |-> ""]>>, <<[region |-> "eu"]>>}}
    \cup {Listener([name |-> n]) : n \in {"", "l1"}}
    \cup {FilterChain([filters |-> [i \in 1..Len(fs) |-> [name |-> fs[i]]]]) :
            fs \in UNION {[1..n -> FilterNames] : n \in 0..MaxFilters}}
    \cup {Datacenter([host |-> h, icao_code |-> c]) :
            h \in {"", "10.0.0.9"}, c \in {"", "EIDW"}}

\* payloads no schema can read: a field cut short, a wire type that does
\* not exist, a known field sent as a varint
MalformedPayloads ==
    { <<[number |-> 1, wire |-> LEN, len |-> 5, str |-> "ab", sub |-> <<>>]>>,
      <<[number |-> 1, wire |-> 7, len |-> 0, str |-> "", sub |-> <<>>]>>,
      <<[number |-> 1, wire |-> 0, len |-> 1, str |-> "", sub |-> <<>>]>> }

\* a field no schema of the model knows
UnknownField == [number |-> 15, wire |-> LEN, len |-> 1, str |-> "z", sub |-> <<>>]

\* one Resource of each variant
Samples ==
    { Cluster([locality |-> <<[region |-> "eu"]>>]),
      Listener([name |-> "l1"]),
      FilterChain([filters |-> <<[name |-> "capture"]>>]),
      Datacenter([host |-> "10.0.0.9", icao_code |-> "EIDW"]) }

PayloadsOf(variant) ==
    {EncodePayload(r) : r \in {x \in Resources : x.variant = variant}}
    \cup {EncodePayload(r) \o <<UnknownField>> : r \in {x \in Samples : x.variant = variant}}
    \cup MalformedPayloads

UnknownUrls ==
    { "",
      "quilkin.config.v1alpha1.Cluster",
      "type.googleapis.com/quilkin.config.v1alpha1.cluster",
      "type.googleapis.com/quilkin.config.v1alpha1.Cluster/",
      "TYPE.GOOGLEAPIS.COM/quilkin.config.v1alpha1.Datacenter",
      "type.googleapis.com/envoy.config.cluster.v3.Cluster" }

\* the envelopes that arrive: a registered identifier with a payload of
\* its schema or a malformed one, an unknown identifier with any payload
Envelopes ==
    UNION {{[type_url |-> type_url(VARIANTS[i]), value |-> v, live |-> TRUE] :
                v \in PayloadsOf(VARIANTS[i])} : i \in 1..Len(VARIANTS)}
    \cup {[type_url |-> u, value |-> v, live |-> TRUE] :
            u \in UnknownUrls,
            v \in MalformedPayloads \cup {EncodePayload(r) : r \in Samples}}

SocketAddrs ==
    { [ip |-> V4(127, 0, 0, 1), port |-> 80],
      [ip |-> V6(<<0, 0, 0, 0, 0, 0, 0, 1>>), port |-> 7777],
      [ip |-> V6(<<0, 0, 0, 0, 0, 65535, 49152, 519>>), port |-> 80],
      [ip |-> V6(<<8193, 3512, 0, 0, 0, 0, 0, 1>>), port |-> 90],
      [ip |-> V6(<<8193, 0, 0, 1, 0, 0, 0, 1>>), port |-> 90],
      [ip |-> V6(<<0, 0, 0, 0, 0, 0, 0, 0>>), port |-> 0] }

ResourceInit ==
    /\ RouterIdle
    /\ XdsIdle
    /\ ScanIdle
    /\ NetIdle

\* decoded holds what the last call returned when that was a decode or a
\* registry lookup, and NoDecoded after any other step

\* a Resource is built directly, to publish local configuration
Construct(r) ==
    /\ res' = r
    /\ decoded' = NoDecoded
    /\ UNCHANGED <<any, routerVars, scanVars, netVars>>

\* an envelope arrives from the discovery peer
Receive(envelope) ==
    /\ any' = envelope
    /\ decoded' = NoDecoded
    /\ UNCHANGED <<res, routerVars, scanVars, netVars>>

\* res.resource_type().encode_to_any(payload of res)
CallEncodeToAny ==
    /\ res # NoResource
    /\ any' = EncodeToAny(resource_type(res), EncodePayload(res))
    /\ decoded' = NoDecoded
    /\ UNCHANGED <<res, routerVars, scanVars, netVars>>

\* Resource::from_any(any)
CallFromAny ==
    /\ any # NoAny
    /\ decoded' = FromAny(any)
    /\ UNCHANGED <<any, res, routerVars, scanVars, netVars>>

\* Resource::try_from(any)
CallTryFrom ==
    /\ any # NoAny
    /\ decoded' = TryFromAny(any)
    /\ UNCHANGED <<any, res, routerVars, scanVars, netVars>>

\* ResourceType::try_from(url)
CallResourceTypeTryFrom(url) ==
    /\ decoded' = ResourceTypeTryFrom(url)
    /\ UNCHANGED <<any, res, routerVars, scanVars, netVars>>

\* res.add_host_to_datacenter(addr)
CallAddHost(addr) ==
    /\ res # NoResource
    /\ decoded' = NoDecoded
    /\ UNCHANGED <<any, routerVars, scanVars, netVars>>
    /\ res' = AddHostToDatacenter(res, addr)

ResourceNext ==
    \/ \E r \in Resources : Construct(r)
    \/ \E envelope \in Envelopes : Receive(envelope)
    \/ CallEncodeToAny
    \/ CallFromAny
    \/ CallTryFrom
    \/ \E i \in 1..Len(VARIANTS) : CallResourceTypeTryFrom(type_url(VARIANTS[i]))
    \/ \E url \in UnknownUrls : CallResourceTypeTryFrom(url)
    \/ \E addr \in SocketAddrs : CallAddHost(addr)

SpecResource == ResourceInit /\ [][ResourceNext]_vars

(***************************************************************************)
(* A read in flight while the configuration changes.  The cluster map is   *)
(* one shared object: it is changed through a shared reference             *)
(* (insert_default and build_token_maps take &self), a context holds a     *)
(* handle to it, and HashedTokenRouter::sync_read runs one cluster at a    *)
(* time.                                                                   *)
(***************************************************************************)
HashedDefault == [kind |-> "HashedTokenRouter", config |-> ConfigDefault]

ConcInit ==
    /\ clusters = <<>>
    /\ filter = HashedDefault
    /\ config_in = [via |-> "config", key |-> "None"]
    /\ ctx = NoCtx
    /\ result = NoResult
    /\ XdsIdle
    /\ ScanIdle
    /\ NetIdle

\* how many updates are followed while one read is in flight
MaxUpdates == 1

\* what a context shows once the shared map has become map: its endpoints
\* field is a handle to the map, not a copy of it
Through(c, map) == IF c.live THEN [c EXCEPT !.endpoints = map] ELSE c

\* the versions once the shared map has become map: a map whose indices
\* are current is what an update leaves, and a read in flight has met it
Versioned(map) ==
    IF IndexCurrent(map)
    THEN [versions EXCEPT
            !.published = map,
            !.seen = IF pc = "idle" THEN {} ELSE versions.seen \cup {map}]
    ELSE versions

\* the first call of the closure given to clusters.modify: the cluster is
\* inserted into the shared map, its index not built yet.  An iteration in
\* flight that has passed the place of a new cluster does not come back
ModifyInsert(locality, endpoints, pos) ==
    /\ IndexCurrent(clusters)
    /\ pc = "idle" \/ (pc # "done" /\ versions.updates < MaxUpdates)
    /\ pos \in 1..(Len(clusters) + 1)
    /\ clusters' = InsertCluster(clusters, locality, endpoints, pos)
    /\ ctx' = Through(ctx, clusters')
    /\ idx' = IF pc = "scan" /\ ~HasLocality(clusters, locality) /\ pos < idx
              THEN idx + 1 ELSE idx
    /\ versions' = [Versioned(clusters') EXCEPT
                        !.updates = IF pc = "idle" THEN 0 ELSE @ + 1]
    /\ UNCHANGED <<filter, config_in, result, pc, dests, xdsVars, netVars>>

\* the second call of the closure: the indices of the shared map are built
ModifyBuild ==
    /\ ~IndexCurrent(clusters)
    /\ clusters' = BuildTokenMaps(clusters)
    /\ ctx' = Through(ctx, clusters')
    /\ versions' = Versioned(clusters')
    /\ UNCHANGED <<filter, config_in, result, pc, idx, dests, xdsVars, netVars>>

\* a packet arrives: its context is given the handle to the cluster map
\* and the capture filter has stored what it captured, if anything
Arrive(entries) ==
    /\ pc = "idle"
    /\ ctx' = [NewContext(clusters, hello) EXCEPT !.metadata = entries]
    /\ result' = NoResult
    /\ pc' = "read"
    /\ versions' = [versions EXCEPT !.seen = {versions.published}, !.updates = 0]
    /\ UNCHANGED <<clusters, filter, config_in, idx, dests, xdsVars, netVars>>

\* sync_read up to the loop: the match on the metadata value
ReadBegin ==
    /\ pc = "read"
    /\ LET value == MetadataGet(ctx.metadata, filter.config.metadata_key) IN
       \/ /\ value.kind = "Bytes"
          /\ dests' = <<>>
          /\ idx' = 1
          /\ pc' = "scan"
          /\ UNCHANGED result
       \/ /\ value.kind \notin {"Bytes", "None"}
          /\ result' = InvalidType(filter.config.metadata_key, value)
          /\ pc' = "done"
          /\ UNCHANGED <<idx, dests>>
       \/ /\ value.kind = "None"
          /\ result' = NoTokenFound(filter.config.metadata_key)
          /\ pc' = "done"
          /\ UNCHANGED <<idx, dests>>
    /\ UNCHANGED <<clusters, filter, config_in, ctx, versions, xdsVars, netVars>>

\* one turn of the loop over ctx.endpoints.iter(), or its end
ScanStep ==
    /\ pc = "scan"
    /\ \/ /\ idx <= Len(ctx.endpoints)
          /\ LET tok == Token(MetadataGet(ctx.metadata, filter.config.metadata_key).data)
                 d == AddressesForToken(ctx.endpoints[idx], tok, dests)
             IN  /\ dests' = d
                 /\ IF d # <<>>
                    THEN pc' = "write" /\ idx' = idx
                    ELSE pc' = "scan" /\ idx' = idx + 1
       \/ /\ idx > Len(ctx.endpoints)
          /\ pc' = "write"
          /\ UNCHANGED <<idx, dests>>
    /\ UNCHANGED <<clusters, filter, config_in, ctx, result, versions, xdsVars, netVars>>

\* sync_read after the loop: destinations is written, the result returned
ReadEnd ==
    /\ pc = "write"
    /\ ctx' = [ctx EXCEPT !.destinations = dests]
    /\ result' =
        IF dests = <<>>
        THEN NoEndpointMatch(filter.config.metadata_key,
                Base64Encode(MetadataGet(ctx.metadata, filter.config.metadata_key).data))
        ELSE Ok
    /\ pc' = "done"
    /\ UNCHANGED <<clusters, filter, config_in, idx, dests, versions, xdsVars, netVars>>

\* the packet is done with; the next one may arrive
Complete ==
    /\ pc = "done"
    /\ pc' = "idle"
    /\ ctx' = NoCtx
    /\ result' = NoResult
    /\ idx' = 0
    /\ dests' = <<>>
    /\ versions' = [versions EXCEPT !.seen = {}, !.updates = 0]
    /\ UNCHANGED <<clusters, filter, config_in, xdsVars, netVars>>

\* what the capture filter may have left in the metadata
CapturedEntries ==
    {EmptyMetadata} \cup
    {MetadataInsert(EmptyMetadata, CAPTURED_BYTES, v) : v \in Values}

ConcNext ==
    \/ \E l \in Localities : \E eps \in EndpointSets : \E pos \in 1..2 :
            ModifyInsert(l, eps, pos)
    \/ ModifyBuild
    \/ \E entries \in CapturedEntries : Arrive(entries)
    \/ ReadBegin
    \/ ScanStep
    \/ ReadEnd
    \/ Complete

SpecConc == ConcInit /\ [][ConcNext]_vars

(***************************************************************************)
(* The proxy with the filter chain [Capture(suffix, 3, remove),            *)
(* HashedTokenRouter(default)]: packets are sent to it and each is put     *)
(* through the chain, then forwarded to its destinations or dropped        *)
(***************************************************************************)
MaxPackets == 2

xyz == <<120, 121, 122>>
hi == <<104, 105>>

\* what clients send: a registered token after a payload, an unregistered
\* one, a token alone, and a packet shorter than a token
Payloads == {hello \o abc, hello \o xyz, abc, hi}

\* the capture filter's configuration: suffix, size 3, remove
CaptureConfig == [strategy |-> "suffix", size |-> 3, remove |-> TRUE]

NoValueCaptured ==
    [kind |-> "NoValueCaptured", key |-> "", value |-> NoValue, token |-> ""]

\* Capture::read with the suffix strategy: the last size bytes go to the
\* metadata under CAPTURED_BYTES and, with remove, off the contents
CaptureRead(config, c) ==
    IF Len(c.contents) < config.size
    THEN [ctx |-> c, result |-> NoValueCaptured]
    ELSE LET cut == Len(c.contents) - config.size
             captured == SubSeq(c.contents, cut + 1, Len(c.contents))
         IN  [ctx |-> [c EXCEPT
                        !.metadata = MetadataInsert(c.metadata, CAPTURED_BYTES,
                                                    Bytes(captured)),
                        !.contents = IF config.remove
                                     THEN SubSeq(c.contents, 1, cut)
                                     ELSE c.contents],
              result |-> Ok]

\* FilterChain::read: the filters in order, stopping at the first error
ChainRead(f, c) ==
    LET captured == CaptureRead(CaptureConfig, c)
    IN  IF captured.result # Ok THEN captured ELSE SyncRead(f, captured.ctx)

PipeInit ==
    /\ clusters = <<>>
    /\ filter = HashedDefault
    /\ config_in = [via |-> "config", key |-> "None"]
    /\ ctx = NoCtx
    /\ result = NoResult
    /\ XdsIdle
    /\ ScanIdle
    /\ NetIdle

\* the packets sent so far
SentCount ==
    Len(inbound) + Cardinality(dropped) + Cardinality({f.packet : f \in forwarded})

\* the configuration is set up before the proxy runs: the closure's insert
Configure(locality, endpoints, pos) ==
    /\ ~serving
    /\ ModifyInsert(locality, endpoints, pos)

\* and its build_token_maps
ConfigureBuild ==
    /\ ~serving
    /\ ModifyBuild

\* t.run_server(server_config)
RunServer ==
    /\ ~serving
    /\ IndexCurrent(clusters)
    /\ serving' = TRUE
    /\ UNCHANGED <<routerVars, xdsVars, scanVars, inbound, forwarded, dropped>>

\* socket.send_to(msg, &local_addr)
Send(payload) ==
    /\ serving
    /\ SentCount < MaxPackets
    /\ inbound' = Append(inbound, [id |-> SentCount + 1, payload |-> payload])
    /\ UNCHANGED <<routerVars, xdsVars, scanVars, serving, forwarded, dropped>>

\* the proxy takes the next packet, runs the chain over a fresh context
\* and sends the contents to every destination, or drops the packet
Process ==
    /\ serving
    /\ inbound # <<>>
    /\ LET packet == Head(inbound)
           r == ChainRead(filter, NewContext(clusters, packet.payload))
       IN  /\ inbound' = Tail(inbound)
           /\ IF r.result = Ok
              THEN /\ forwarded' = forwarded \cup
                        {[packet |-> packet, to |-> r.ctx.destinations[k],
                          payload |-> r.ctx.contents] :
                            k \in 1..Len(r.ctx.destinations)}
                   /\ dropped' = dropped
              ELSE /\ dropped' = dropped \cup {packet}
                   /\ forwarded' = forwarded
    /\ UNCHANGED <<routerVars, xdsVars, scanVars, serving>>

PipeNext ==
    \/ \E l \in Localities : \E eps \in EndpointSets : \E pos \in 1..2 :
            Configure(l, eps, pos)
    \/ ConfigureBuild
    \/ RunServer
    \/ \E payload \in Payloads : Send(payload)
    \/ Process

\* the proxy's receive loop keeps taking packets while there are any
SpecPipeline == PipeInit /\ [][PipeNext]_vars /\ WF_vars(Process)

(***************************************************************************)
(* Properties of the routers                                               *)
(***************************************************************************)
\* the key the built router reads and the value stored under it
RouterKey == filter.config.metadata_key
RouterValue == MetadataGet(ctx.metadata, RouterKey)

\* positions <<cluster, endpoint>> of the endpoints holding the token
Holders(map, token) ==
    {p \in UNION {{<<i, j>> : j \in 1..Len(map[i].endpoints)} : i \in 1..Len(map)} :
        token \in map[p[1]].endpoints[p[2]].tokens}

\* how many of the positions come no later than p in iteration order
Rank(p, S) ==
    Cardinality({q \in S : q[1] < p[1] \/ (q[1] = p[1] /\ q[2] <= p[2])})

\* the clusters whose index has a non-empty entry for the token
IndexHolders(map, token) ==
    {i \in 1..Len(map) :
        /\ Token(token) \in DOMAIN map[i].token_map
        /\ map[i].token_map[Token(token)] # <<>>}

FirstOf(S) == CHOOSE i \in S : \A j \in S : i <= j

\* the base64 text of the tokens, as known vectors
ExpectedBase64(token) ==
    CASE token = abc -> "YWJj"
      [] token = k123 -> "MTIz"
      [] token = xy -> "eHk="

\* C1: a read that returned success left context.destinations non-empty,
\* whichever of the two routers ran
C1_SuccessHasDestinations ==
    result.kind = "Ok" => ctx.destinations # <<>>

C1_Witness ==
    /\ result.kind = "Ok"
    /\ filter.kind = "HashedTokenRouter"
    /\ ctx.destinations # <<>>

\* C2: the linear router, given a byte token some endpoint holds, succeeds
\* and destinations is the addresses of exactly the endpoints holding the
\* token, in the iteration order of the endpoint set
C2_LinearCollectsHolders ==
    [][(/\ Read
        /\ filter.kind = "TokenRouter"
        /\ RouterValue.kind = "Bytes"
        /\ Holders(ctx.endpoints, RouterValue.data) # {})
       => LET H == Holders(ctx.endpoints, RouterValue.data)
          IN  /\ result' = Ok
              /\ Len(ctx'.destinations) = Cardinality(H)
              /\ \A p \in H :
                    ctx'.destinations[Rank(p, H)]
                        = ctx.endpoints[p[1]].endpoints[p[2]].address]_vars

C2_Witness ==
    /\ filter.kind = "TokenRouter"
    /\ result = Ok
    /\ RouterValue = Bytes(abc)
    /\ ctx.destinations = <<"A", "C">>
    /\ \E i \in 1..Len(ctx.endpoints) :
            ctx.endpoints[i].endpoints = <<EndpointA, EndpointB>>

\* C3: the hashed router, given a byte token, returns the address list the
\* first cluster (in iteration order) with a non-empty index entry maps the
\* token to, and nothing of any later cluster
C3_HashedFirstCluster ==
    [][(/\ Read
        /\ filter.kind = "HashedTokenRouter"
        /\ RouterValue.kind = "Bytes"
        /\ IndexHolders(ctx.endpoints, RouterValue.data) # {})
       => LET first == FirstOf(IndexHolders(ctx.endpoints, RouterValue.data))
          IN  /\ result' = Ok
              /\ ctx'.destinations
                    = ctx.endpoints[first].token_map[Token(RouterValue.data)]]_vars

C3_Witness ==
    /\ filter.kind = "HashedTokenRouter"
    /\ result = Ok
    /\ RouterValue = Bytes(abc)
    /\ IndexHolders(ctx.endpoints, abc) = {1, 2}
    /\ ctx.destinations = <<"A">>
    /\ ctx.endpoints[2].token_map[Token(abc)] = <<"C">>

\* C4: a read fails with NoTokenFound(key) when the key has no entry, with
\* InvalidType(key, value) when the entry is not bytes, with
\* NoEndpointMatch(key, base64(token)) when no endpoint (linear) or no
\* cluster index (hashed) holds the token, and succeeds otherwise
C4_FailureKinds ==
    [][Read =>
        result' =
            IF RouterKey \notin DOMAIN ctx.metadata THEN NoTokenFound(RouterKey)
            ELSE IF ctx.metadata[RouterKey].kind # "Bytes"
                 THEN InvalidType(RouterKey, ctx.metadata[RouterKey])
            ELSE IF \/ /\ filter.kind = "TokenRouter"
                       /\ Holders(ctx.endpoints, ctx.metadata[RouterKey].data) = {}
                    \/ /\ filter.kind = "HashedTokenRouter"
                       /\ IndexHolders(ctx.endpoints, ctx.metadata[RouterKey].data) = {}
                 THEN NoEndpointMatch(RouterKey,
                                      ExpectedBase64(ctx.metadata[RouterKey].data))
            ELSE Ok]_vars

C4_Witness ==
    /\ filter.kind = "HashedTokenRouter"
    /\ RouterValue = Bytes(xy)
    /\ result = NoEndpointMatch(RouterKey, "eHk=")
    /\ Len(ctx.endpoints) = 2
    /\ IndexHolders(ctx.endpoints, abc) # {}

\* the key a router built from config_in has to read
ConfiguredKey ==
    IF config_in.key = "None" THEN "quilkin.dev/capture" ELSE config_in.key

\* C10: a router built with no configuration, or from a wire configuration
\* without metadataKey, reads the token under the capture filter's key; a
\* router built with metadataKey X reads it under X only, and fails with
\* NoTokenFound(X) when X has no entry, whatever the other keys hold
C10_ConfiguredKeyOnly ==
    [][Read =>
        /\ ConfiguredKey \notin DOMAIN ctx.metadata
            => result' = NoTokenFound(ConfiguredKey)
        /\ ConfiguredKey \in DOMAIN ctx.metadata
            => LET value == ctx.metadata[ConfiguredKey] IN
               /\ result'.kind # "NoTokenFound"
               /\ result'.kind = "InvalidType"
                    => result' = InvalidType(ConfiguredKey, value)
               /\ result'.kind = "NoEndpointMatch"
                    => result' = NoEndpointMatch(ConfiguredKey,
                                                 ExpectedBase64(value.data))
               /\ result'.kind = "Ok"
                    => \A k \in 1..Len(ctx'.destinations) :
                         \E p \in Holders(ctx.endpoints, value.data) :
                            ctx.endpoints[p[1]].endpoints[p[2]].address
                                = ctx'.destinations[k]]_vars

C10_Witness ==
    /\ config_in.key = TOKEN_KEY
    /\ TOKEN_KEY \notin DOMAIN ctx.metadata
    /\ MetadataGet(ctx.metadata, CAPTURED_BYTES) = Bytes(abc)
    /\ Holders(ctx.endpoints, abc) # {}
    /\ result = NoTokenFound(TOKEN_KEY)

(***************************************************************************)
(* Properties of the resource codec                                        *)
(***************************************************************************)
\* the four registered identifiers, written out
RegisteredUrl(variant) ==
    CASE variant = "Cluster" -> "type.googleapis.com/quilkin.config.v1alpha1.Cluster"
      [] variant = "Listener" -> "type.googleapis.com/envoy.config.listener.v3.Listener"
      [] variant = "FilterChain" -> "type.googleapis.com/quilkin.config.v1alpha1.FilterChain"
      [] variant = "Datacenter" -> "type.googleapis.com/quilkin.config.v1alpha1.Datacenter"

RegisteredUrls ==
    {RegisteredUrl(v) : v \in {"Cluster", "Listener", "FilterChain", "Datacenter"}}

IsUnknownTypeError(d, url) ==
    /\ d.kind = "UnknownResourceType"
    /\ d.url = url
    /\ d.resource = NoResource
    /\ d.rtype = ""

\* C5: an identifier that is not exactly one of the four registered ones
\* is rejected with UnknownResourceType carrying it, whatever the payload,
\* by from_any, by TryFrom<Any> and by ResourceType::try_from alike
C5_UnknownTypeRejected ==
    [][/\ (CallFromAny \/ CallTryFrom) /\ any.type_url \notin RegisteredUrls
            => IsUnknownTypeError(decoded', any.type_url)
       /\ \A url \in UnknownUrls \cup RegisteredUrls :
            CallResourceTypeTryFrom(url) /\ url \notin RegisteredUrls
                => IsUnknownTypeError(decoded', url)]_vars

C5_Witness ==
    /\ any.type_url = "type.googleapis.com/quilkin.config.v1alpha1.cluster"
    /\ any.value = EncodePayload(Cluster([locality |-> <<[region |-> "eu"]>>]))
    /\ IsUnknownTypeError(decoded, any.type_url)

\* C6: the envelope encode_to_any makes of a Resource's payload under its
\* own resource type carries that type's identifier, and decoding it gives
\* back a Resource of the same variant with the same payload
C6_RoundTrip ==
    [][/\ CallEncodeToAny => any'.type_url = RegisteredUrl(res.variant)
       /\ (/\ CallFromAny \/ CallTryFrom
           /\ res # NoResource
           /\ any = EncodeToAny(resource_type(res), EncodePayload(res)))
            => /\ decoded'.kind = "Ok"
               /\ decoded'.resource.variant = res.variant
               /\ decoded'.resource.msg = res.msg]_vars

C6_Witness ==
    /\ res = Datacenter([host |-> "2001:db8::1", icao_code |-> "EIDW"])
    /\ any.type_url = "type.googleapis.com/quilkin.config.v1alpha1.Datacenter"
    /\ Len(any.value) = 2
    /\ decoded = DecodedOk(res)

\* the canonical text of the addresses, written out
ExpectedHost(addr) ==
    CASE addr.ip = V4(127, 0, 0, 1) -> "127.0.0.1"
      [] addr.ip = V6(<<0, 0, 0, 0, 0, 0, 0, 1>>) -> "::1"
      [] addr.ip = V6(<<0, 0, 0, 0, 0, 65535, 49152, 519>>) -> "192.0.2.7"
      [] addr.ip = V6(<<8193, 3512, 0, 0, 0, 0, 0, 1>>) -> "2001:db8::1"
      [] addr.ip = V6(<<8193, 0, 0, 1, 0, 0, 0, 1>>) -> "2001:0:0:1::1"
      [] addr.ip = V6(<<0, 0, 0, 0, 0, 0, 0, 0>>) -> "::"

\* C9: add_host_to_datacenter leaves a Cluster, Listener or FilterChain as
\* it is; on a Datacenter it sets host to the canonical text of the
\* address's IP, whatever host was there, and keeps icao_code and variant
C9_AddHostFrame ==
    [][\A addr \in SocketAddrs :
        CallAddHost(addr) =>
            IF res.variant = "Datacenter"
            THEN /\ res'.variant = "Datacenter"
                 /\ res'.msg.host = ExpectedHost(addr)
                 /\ res'.msg.icao_code = res.msg.icao_code
                 /\ DOMAIN res'.msg = {"host", "icao_code"}
            ELSE res' = res]_vars

C9_Witness ==
    /\ res = Datacenter([host |-> "192.0.2.7", icao_code |-> "EIDW"])

(***************************************************************************)
(* Properties of a read concurrent with configuration updates              *)
(***************************************************************************)
\* what sync_read gives when run in one piece over the map
RouteOver(map) ==
    HashedTokenRouterSyncRead(filter.config,
        [ctx EXCEPT !.endpoints = map, !.destinations = <<>>])

PendingId(id) == \E i \in 1..Len(inbound) : inbound[i].id = id

\* the trailing three bytes of a payload, and what is before them
Suffix3(payload) == SubSeq(payload, Len(payload) - 2, Len(payload))
Prefix3(payload) == SubSeq(payload, 1, Len(payload) - 3)

\* whether the packet ends in a token some endpoint of the map holds
EndsInRegistered(packet) ==
    /\ Len(packet.payload) >= 3
    /\ Holders(clusters, Suffix3(packet.payload)) # {}

EndsInUnregistered(packet) ==
    /\ Len(packet.payload) >= 3
    /\ Holders(clusters, Suffix3(packet.payload)) = {}

AddressAt(p) == clusters[p[1]].endpoints[p[2]].address

\* the addresses holding the token in the first cluster that holds it
FirstHolders(token) ==
    LET H == Holders(clusters, token)
        first == FirstOf({p[1] : p \in H})
    IN  {AddressAt(p) : p \in {q \in H : q[1] = first}}

Delivery(packet, address) ==
    [packet |-> packet, to |-> address, payload |-> Prefix3(packet.payload)]

\* the packet of that id has been processed as it should: forwarded to
\* the first holders when it ends in a registered token, dropped otherwise
Settled(id) ==
    \/ \E f \in forwarded :
            /\ f.packet.id = id
            /\ EndsInRegistered(f.packet)
            /\ \A a \in FirstHolders(Suffix3(f.packet.payload)) :
                    Delivery(f.packet, a) \in forwarded
    \/ \E d \in dropped : d.id = id /\ ~EndsInRegistered(d)

\* C8 as stated: a processed packet that ends in a registered token has
\* been forwarded, without the token, to every endpoint that holds the
\* token, and a packet ending in an unregistered token is never forwarded
C8_ForwardedToEveryHolder ==
    /\ \A f \in forwarded :
            \A p \in Holders(clusters, Suffix3(f.packet.payload)) :
                Delivery(f.packet, AddressAt(p)) \in forwarded
    /\ \A f \in forwarded : ~EndsInUnregistered(f.packet)

\* C8: behind suffix capture (3, remove) and the default hashed router, a
\* packet ending in a registered token is eventually forwarded, without
\* the token, to the endpoints holding the token in the first cluster that
\* holds it, and to no other; a packet ending in three bytes that are no
\* registered token is eventually dropped and never forwarded
C8_ForwardedToFirstCluster ==
    /\ [](\A f \in forwarded :
            /\ EndsInRegistered(f.packet)
            /\ f.to \in FirstHolders(Suffix3(f.packet.payload))
            /\ f.payload = Prefix3(f.packet.payload)
            /\ \A a \in FirstHolders(Suffix3(f.packet.payload)) :
                    Delivery(f.packet, a) \in forwarded)
    /\ [](\A d \in dropped : ~EndsInRegistered(d))
    /\ \A id \in 1..MaxPackets : PendingId(id) ~> Settled(id)

C8_Witness ==
    /\ Len(clusters) = 2
    /\ Holders(clusters, abc) = {<<1, 1>>, <<2, 1>>}
    /\ AddressAt(<<1, 1>>) = "A"
    /\ AddressAt(<<2, 1>>) = "C"
    /\ forwarded = {[packet |-> [id |-> 1, payload |-> hello \o abc],
                     to |-> "A", payload |-> hello]}
    /\ dropped = {[id |-> 2, payload |-> hello \o xyz]}

\* C11 as stated: a read that fails, with whichever of the three failures,
\* leaves the whole context, destinations included, as it was before
C11_FailureLeavesDestinations ==
    [][(Read /\ result'.kind # "Ok") => (ctx' = ctx)]_vars

\* C11: a read that fails leaves metadata, packet contents and the endpoint
\* snapshot as they were; destinations keeps its prior value after
\* NoTokenFound and InvalidType, and is the empty list after
\* NoEndpointMatch, whatever it held before
C11_FailureWrites ==
    [][(Read /\ result'.kind # "Ok")
       => /\ ctx'.metadata = ctx.metadata
          /\ ctx'.contents = ctx.contents
          /\ ctx'.endpoints = ctx.endpoints
          /\ ctx'.live = ctx.live
          /\ ctx'.destinations =
                IF result'.kind = "NoEndpointMatch" THEN <<>>
                ELSE ctx.destinations]_vars

\* a read failed on a context whose destinations an earlier read had filled
C11_Witness ==
    /\ result.kind = "InvalidType"
    /\ ctx.destinations = <<"A", "C">>
    /\ filter.kind = "TokenRouter"

\* the addresses of a destination list, as a set
AddressSet(destinations) == {destinations[i] : i \in 1..Len(destinations)}

\* the clusters with an endpoint holding the token
HoldingClusters(map, token) == {p[1] : p \in Holders(map, token)}

\* the addresses of the endpoints holding the token in the given clusters
HolderAddresses(map, token, cs) ==
    {map[p[1]].endpoints[p[2]].address :
        p \in {q \in Holders(map, token) : q[1] \in cs}}

\* C12: over a cluster map whose indices are current, and for every key and
\* metadata state, the two routers return the same kind of result; their
\* destinations are the same set of addresses unless the token is held in
\* two or more clusters, and then the linear router's are the holders of
\* every cluster and the hashed router's the holders of the first such
\* cluster only
C12_RoutersAgree ==
    (ctx.live /\ IndexCurrent(ctx.endpoints)) =>
        \A key \in Keys :
            LET config == [metadata_key |-> key]
                linear == TokenRouterSyncRead(config, ctx)
                hashed == HashedTokenRouterSyncRead(config, ctx)
                value == MetadataGet(ctx.metadata, key)
                holding == IF value.kind = "Bytes"
                           THEN HoldingClusters(ctx.endpoints, value.data)
                           ELSE {}
            IN  /\ linear.result.kind = hashed.result.kind
                /\ Cardinality(holding) <= 1 =>
                        AddressSet(linear.ctx.destinations)
                            = AddressSet(hashed.ctx.destinations)
                /\ Cardinality(holding) = 1 => linear.result = Ok
                /\ Cardinality(holding) >= 2 =>
                        /\ linear.result = Ok
                        /\ AddressSet(linear.ctx.destinations)
                                = HolderAddresses(ctx.endpoints, value.data, holding)
                        /\ AddressSet(hashed.ctx.destinations)
                                = HolderAddresses(ctx.endpoints, value.data,
                                                  {FirstOf(holding)})

\* the linear router has routed a token held in two clusters to both
\* holders, where the hashed router gives the first cluster's only
C12_Witness ==
    /\ ctx.live
    /\ IndexCurrent(ctx.endpoints)
    /\ filter.kind = "TokenRouter"
    /\ RouterValue = Bytes(abc)
    /\ HoldingClusters(ctx.endpoints, abc) = {1, 2}
    /\ result = Ok
    /\ ctx.destinations = <<"A", "C">>
    /\ HashedTokenRouterSyncRead(filter.config, ctx).ctx.destinations = <<"A">>

====
